---- MODULE Spec2Model ----
(***************************************************************************)
(* Model of the minta GUI shell: GuiMain, GuiController, NodeWorker and    *)
(* BitcoinGUI, with Qt's signal/slot delivery (AutoConnection: a direct    *)
(* call when the emitting thread is the receiver's thread, otherwise an    *)
(* event posted to the receiver thread's FIFO event queue).                *)
(*                                                                         *)
(* Threads: "gui" (GuiMain and the QApplication event loop), "worker"      *)
(* (m_node_thread) and "exec" (the init executor's own thread).            *)
(* stack[t] is the call stack of thread t (slots being executed, innermost *)
(* first), queue[t] its event queue.                                       *)
(***************************************************************************)
EXTENDS Integers, Sequences, FiniteSets, TLC

\* Bounds on the user's input events.
MaxClicks == 2
MaxCloses == 2

EXIT_SUCCESS == 0
EXIT_FAILURE == 1

Threads == {"gui", "worker", "exec"}
Objects == {"controller", "window", "node", "executor", "ctx"}

VARIABLES
    mainPc,         \* position of GuiMain on the gui thread
    retval,         \* value returned by GuiMain (-1 while running)
    exitReq,        \* the main event loop was told to exit
    exitCode,       \* return code handed to QCoreApplication::exit
    execRet,        \* value returned by QApplication::exec (-1 before)
    affinity,       \* QObject thread affinity
    threadStarted,  \* m_node_thread->start() was called
    stack,          \* per thread: slots in execution
    queue,          \* per thread: posted events
    shown,          \* the main window is visible
    m_allow_close,  \* BitcoinGUI::m_allow_close
    configFailed,   \* common::InitConfig returned an error
    baseRes,        \* outcome of baseInitialize(): "none", "ok", "fail"
    gotSuccess,     \* the worker received a result with success = true
    gotFail,        \* the worker received a result with success = false
    cnt,            \* history counters
    ranOn,          \* history: <<object, slot, thread>> of every slot run
    flagAccess,     \* history: threads that read or wrote m_allow_close
    closeLog        \* history: per close event, the clicks made before it

vars == <<mainPc, retval, exitReq, exitCode, execRet, affinity, threadStarted,
          stack, queue, shown, m_allow_close, configFailed, baseRes,
          gotSuccess, gotFail, cnt, ranOn, flagAccess, closeLog>>

Counters == {"clicks", "closes", "listCmd", "rcv", "baseInit", "initStart",
             "results", "resHandled", "succEmit", "failEmit", "show",
             "onShutdown", "execShutdown", "ack", "doClose",
             "accepted", "ignored", "exitCalls", "parseFail", "thrown",
             "created", "execEntered"}

Frame(o, s, a) == [obj |-> o, slot |-> s, arg |-> a]

Conn(so, sg, ro, sl) == [sender |-> so, sig |-> sg, recv |-> ro, slot |-> sl]

\* A variant of the connection table in which the commands signal is
\* connected twice to rcvCommands.
ConnectionsDupCommands ==
    << Conn("window", "listCommands", "node", "listCommands"),
       Conn("node", "commands", "window", "rcvCommands"),
       Conn("node", "commands", "window", "rcvCommands"),
       Conn("window", "quitRequested", "node", "onShutdown"),
       Conn("node", "shutdownResult", "window", "doClose"),
       Conn("controller", "initNode", "node", "baseInitNode"),
       Conn("node", "initSuccess", "window", "show"),
       Conn("node", "shutdown", "executor", "shutdown"),
       Conn("node", "baseInitSuccess", "node", "initNode"),
       Conn("node", "baseInitFail", "node", "onBaseInitFail"),
       Conn("node", "initFail", "node", "onInitFail"),
       Conn("executor", "initializeResult", "node", "initializeResult"),
       Conn("executor", "initializeResult", "node", "initializeResult"),
       Conn("executor", "shutdownResult", "node", "shutdownResult") >>

\* A variant of the connection table in which the window is shown on
\* baseInitSuccess.
ConnectionsShowOnBaseInit ==
    << Conn("window", "listCommands", "node", "listCommands"),
       Conn("node", "commands", "window", "rcvCommands"),
       Conn("window", "quitRequested", "node", "onShutdown"),
       Conn("node", "shutdownResult", "window", "doClose"),
       Conn("controller", "initNode", "node", "baseInitNode"),
       Conn("node", "baseInitSuccess", "window", "show"),
       Conn("node", "shutdown", "executor", "shutdown"),
       Conn("node", "baseInitSuccess", "node", "initNode"),
       Conn("node", "baseInitFail", "node", "onBaseInitFail"),
       Conn("node", "initFail", "node", "onInitFail"),
       Conn("executor", "initializeResult", "node", "initializeResult"),
       Conn("executor", "initializeResult", "node", "initializeResult"),
       Conn("executor", "shutdownResult", "node", "shutdownResult") >>

\* A variant of the connection table in which quitRequested is connected
\* twice to onShutdown.
ConnectionsDupQuit ==
    << Conn("window", "listCommands", "node", "listCommands"),
       Conn("node", "commands", "window", "rcvCommands"),
       Conn("window", "quitRequested", "node", "onShutdown"),
       Conn("window", "quitRequested", "node", "onShutdown"),
       Conn("node", "shutdownResult", "window", "doClose"),
       Conn("controller", "initNode", "node", "baseInitNode"),
       Conn("node", "initSuccess", "window", "show"),
       Conn("node", "shutdown", "executor", "shutdown"),
       Conn("node", "baseInitSuccess", "node", "initNode"),
       Conn("node", "baseInitFail", "node", "onBaseInitFail"),
       Conn("node", "initFail", "node", "onInitFail"),
       Conn("executor", "initializeResult", "node", "initializeResult"),
       Conn("executor", "initializeResult", "node", "initializeResult"),
       Conn("executor", "shutdownResult", "node", "shutdownResult") >>

\* The connect() calls of GuiController::GuiController and
\* NodeWorker::NodeWorker, in program order.  A connection made twice
\* delivers twice.
Connections ==
    << Conn("window", "listCommands", "node", "listCommands"),
       Conn("node", "commands", "window", "rcvCommands"),
       Conn("window", "quitRequested", "node", "onShutdown"),
       Conn("node", "shutdownResult", "window", "doClose"),
       Conn("controller", "initNode", "node", "baseInitNode"),
       Conn("node", "initSuccess", "window", "show"),
       Conn("node", "shutdown", "executor", "shutdown"),
       Conn("node", "baseInitSuccess", "node", "initNode"),
       Conn("node", "baseInitFail", "node", "onBaseInitFail"),
       Conn("node", "initFail", "node", "onInitFail"),
       Conn("executor", "initializeResult", "node", "initializeResult"),
       Conn("executor", "initializeResult", "node", "initializeResult"),
       Conn("executor", "shutdownResult", "node", "shutdownResult") >>

\* The worker stays on the thread that constructed it.
NodeThreadUnmoved == "gui"

\* m_node->moveToThread(m_node_thread)
NodeThread == "worker"

RECURSIVE Targets(_, _, _, _)
\* The slots connected to signal sg of object so, in connection order,
\* from position i of the connection table.
Targets(so, sg, a, i) ==
    IF i > Len(Connections) THEN << >>
    ELSE LET c == Connections[i]
         IN  IF c.sender = so /\ c.sig = sg
             THEN << Frame(c.recv, c.slot, a) >> \o Targets(so, sg, a, i + 1)
             ELSE Targets(so, sg, a, i + 1)

\* Qt::AutoConnection: receivers living on the emitting thread are called
\* directly, the others get an event on their thread's queue.
DirectCalls(cur, so, sg, a) ==
    SelectSeq(Targets(so, sg, a, 1), LAMBDA f : affinity[f.obj] = cur)

QueuedCalls(t, cur, so, sg, a) ==
    SelectSeq(Targets(so, sg, a, 1),
              LAMBDA f : affinity[f.obj] = t /\ t # cur)

Bump(c, k) == [c EXCEPT ![k] = @ + 1]

Top(t) == Head(stack[t])

Running(t, o, s) ==
    /\ stack[t] # << >>
    /\ Top(t).obj = o
    /\ Top(t).slot = s

\* The slot on top of thread t returns after emitting signal sg of so.
EmitAndReturn(t, so, sg, a) ==
    /\ stack' = [stack EXCEPT ![t] = DirectCalls(t, so, sg, a) \o Tail(@)]
    /\ queue' = [u \in Threads |-> queue[u] \o QueuedCalls(u, t, so, sg, a)]

Return(t) == stack' = [stack EXCEPT ![t] = Tail(@)]

Record(t) == ranOn' = ranOn \cup {<<Top(t).obj, Top(t).slot, t>>}

\* QCoreApplication::exit(code): stops the main event loop; does nothing
\* when the loop is not running.
ExitLoop(code) ==
    IF mainPc = "exec"
    THEN exitReq' = TRUE /\ exitCode' = code
    ELSE UNCHANGED <<exitReq, exitCode>>

Alive == mainPc # "returned"

\* Nothing quits, waits for or deletes m_node_thread (~GuiController is
\* defaulted): once started it runs until the process ends.
ThreadRunning == threadStarted

Init ==
    /\ mainPc = "start"
    /\ retval = -1
    /\ exitReq = FALSE
    /\ exitCode = 0
    /\ execRet = -1
    /\ affinity = [o \in Objects |-> IF o = "ctx" THEN "exec" ELSE "gui"]
    /\ threadStarted = FALSE
    /\ stack = [t \in Threads |-> << >>]
    /\ queue = [t \in Threads |-> << >>]
    /\ shown = FALSE
    /\ m_allow_close = FALSE
    /\ configFailed = FALSE
    /\ baseRes = "none"
    /\ gotSuccess = FALSE
    /\ gotFail = FALSE
    /\ cnt = [k \in Counters |-> 0]
    /\ ranOn = {}
    /\ flagAccess = {}
    /\ closeLog = << >>

\* Signal sg of object so is emitted on thread t, whose stack below the
\* emitter is rest.
Emit(t, rest, so, sg, a) ==
    /\ stack' = [stack EXCEPT ![t] = DirectCalls(t, so, sg, a) \o rest]
    /\ queue' = [u \in Threads |-> queue[u] \o QueuedCalls(u, t, so, sg, a)]

\* Work handed to the init executor's own thread.
PostToExec(what) ==
    queue' = [queue EXCEPT !["exec"] = Append(@, Frame("ctx", what, "none"))]

----------------------------------------------------------------------------
\* GuiMain and the GuiController constructor, on the gui thread.

\* GuiMain goes on to the controller even when the parameters did not parse.
AfterParseNoReturn(ok) == "ctor_config"

\* if (!gArgs.ParseParameters(...)) return EXIT_FAILURE;
AfterParse(ok) == IF ok THEN "ctor_config" ELSE "returned"

\* gArgs.ParseParameters(argc, argv, error)
GuiMain_ParseParameters ==
    /\ mainPc = "start"
    /\ \E ok \in BOOLEAN :
        /\ mainPc' = AfterParse(ok)
        /\ IF ok
           THEN UNCHANGED <<retval, cnt>>
           ELSE retval' = EXIT_FAILURE /\ cnt' = Bump(cnt, "parseFail")
    /\ UNCHANGED <<closeLog, exitReq, exitCode, execRet, affinity, threadStarted, stack,
                   queue, shown, m_allow_close, configFailed, baseRes,
                   gotSuccess, gotFail, ranOn, flagAccess>>

\* common::InitConfig(gArgs); on error QApplication::exit(1), and the
\* constructor goes on.
Ctor_InitConfig ==
    /\ mainPc = "ctor_config"
    /\ \E err \in BOOLEAN :
        /\ configFailed' = err
        /\ IF err
           THEN ExitLoop(1) /\ cnt' = Bump(cnt, "exitCalls")
           ELSE UNCHANGED <<exitReq, exitCode, cnt>>
    /\ mainPc' = "ctor_wire"
    /\ UNCHANGED <<closeLog, retval, execRet, affinity, threadStarted, stack, queue,
                   shown, m_allow_close, baseRes, gotSuccess, gotFail, ranOn,
                   flagAccess>>

\* An exception leaves the constructor and is caught by GuiMain.
GuiMain_CatchException ==
    /\ mainPc \in {"ctor_config", "ctor_wire"}
    /\ mainPc' = "returned"
    /\ retval' = EXIT_FAILURE
    /\ cnt' = Bump(cnt, "thrown")
    /\ UNCHANGED <<closeLog, exitReq, exitCode, execRet, affinity, threadStarted, stack,
                   queue, shown, m_allow_close, configFailed, baseRes,
                   gotSuccess, gotFail, ranOn, flagAccess>>

\* The constructor emits initNode before the worker is moved and its
\* thread started.
CtorNextEmitFirst(pc) ==
    CASE pc = "ctor_wire" -> "ctor_emit"
      [] pc = "ctor_emit" -> "ctor_move"
      [] pc = "ctor_move" -> "ctor_start"
      [] pc = "ctor_start" -> "ctor_end"

\* The order of the constructor's last statements: moveToThread, start,
\* Q_EMIT initNode.
CtorNext(pc) ==
    CASE pc = "ctor_wire" -> "ctor_move"
      [] pc = "ctor_move" -> "ctor_start"
      [] pc = "ctor_start" -> "ctor_emit"
      [] pc = "ctor_emit" -> "ctor_end"

\* new BitcoinGUI, new NodeWorker, new QThread and the connect() calls.
Ctor_Wire ==
    /\ mainPc = "ctor_wire"
    /\ mainPc' = CtorNext(mainPc)
    /\ cnt' = Bump(cnt, "created")
    /\ UNCHANGED <<closeLog, retval, exitReq, exitCode, execRet, affinity,
                   threadStarted, stack, queue, shown, m_allow_close,
                   configFailed, baseRes, gotSuccess, gotFail, ranOn,
                   flagAccess>>

\* m_node->moveToThread(m_node_thread): the executor, a member without a
\* QObject parent, keeps its affinity.
Ctor_MoveToThread ==
    /\ mainPc = "ctor_move"
    /\ affinity' = [affinity EXCEPT !["node"] = NodeThread]
    /\ mainPc' = CtorNext(mainPc)
    /\ UNCHANGED <<closeLog, retval, exitReq, exitCode, execRet, threadStarted, stack,
                   queue, shown, m_allow_close, configFailed, baseRes,
                   gotSuccess, gotFail, cnt, ranOn, flagAccess>>

\* m_node_thread->start()
Ctor_StartThread ==
    /\ mainPc = "ctor_start"
    /\ threadStarted' = TRUE
    /\ mainPc' = CtorNext(mainPc)
    /\ UNCHANGED <<closeLog, retval, exitReq, exitCode, execRet, affinity, stack, queue,
                   shown, m_allow_close, configFailed, baseRes, gotSuccess,
                   gotFail, cnt, ranOn, flagAccess>>

\* Q_EMIT this->initNode()
Ctor_EmitInitNode ==
    /\ mainPc = "ctor_emit"
    /\ Emit("gui", stack["gui"], "controller", "initNode", "none")
    /\ mainPc' = CtorNext(mainPc)
    /\ UNCHANGED <<closeLog, retval, exitReq, exitCode, execRet, affinity,
                   threadStarted, shown, m_allow_close, configFailed, baseRes,
                   gotSuccess, gotFail, cnt, ranOn, flagAccess>>

\* QApplication::exec() starts the main event loop.
GuiMain_Exec ==
    /\ mainPc = "ctor_end"
    /\ stack["gui"] = << >>
    /\ mainPc' = "exec"
    /\ exitReq' = FALSE
    /\ cnt' = Bump(cnt, "execEntered")
    /\ UNCHANGED <<closeLog, retval, exitCode, execRet, affinity, threadStarted, stack,
                   queue, shown, m_allow_close, configFailed, baseRes,
                   gotSuccess, gotFail, ranOn, flagAccess>>

\* exec() returns, its value is dropped, GuiMain returns EXIT_SUCCESS.
GuiMain_Return ==
    /\ mainPc = "exec"
    /\ exitReq
    /\ stack["gui"] = << >>
    /\ mainPc' = "returned"
    /\ execRet' = exitCode
    /\ retval' = EXIT_SUCCESS
    /\ UNCHANGED <<closeLog, exitReq, exitCode, affinity, threadStarted, stack, queue,
                   shown, m_allow_close, configFailed, baseRes, gotSuccess,
                   gotFail, cnt, ranOn, flagAccess>>

----------------------------------------------------------------------------
\* The event loop takes the event posted last.
PopEventLast(q) == [ev |-> q[Len(q)], rest |-> SubSeq(q, 1, Len(q) - 1)]

\* Posted events are delivered in the order they were posted.
PopEvent(q) == [ev |-> Head(q), rest |-> Tail(q)]

\* A thread's event loop takes the next posted event.  The batch of events
\* in delivery when the main loop is told to exit may still be delivered.
Dispatch(t) ==
    /\ Alive
    /\ stack[t] = << >>
    /\ queue[t] # << >>
    /\ t = "gui" => mainPc = "exec"
    /\ t = "worker" => threadStarted
    /\ stack' = [stack EXCEPT ![t] = << PopEvent(queue[t]).ev >>]
    /\ queue' = [queue EXCEPT ![t] = PopEvent(queue[t]).rest]
    /\ UNCHANGED <<closeLog, mainPc, retval, exitReq, exitCode, execRet, affinity,
                   threadStarted, shown, m_allow_close, configFailed, baseRes,
                   gotSuccess, gotFail, cnt, ranOn, flagAccess>>

----------------------------------------------------------------------------
\* NodeWorker

\* baseInitNode always reports success.
BaseInitSignalAlwaysSuccess(ok) == "baseInitSuccess"

BaseInitSignal(ok) == IF ok THEN "baseInitSuccess" ELSE "baseInitFail"

NodeWorker_baseInitNode(t) ==
    /\ Alive
    /\ Running(t, "node", "baseInitNode")
    /\ \E ok \in BOOLEAN :
        /\ baseRes' = IF ok THEN "ok" ELSE "fail"
        /\ EmitAndReturn(t, "node", BaseInitSignal(ok), "none")
    /\ cnt' = Bump(cnt, "baseInit")
    /\ Record(t)
    /\ UNCHANGED <<closeLog, mainPc, retval, exitReq, exitCode, execRet, affinity,
                   threadStarted, shown, m_allow_close, configFailed,
                   gotSuccess, gotFail, flagAccess>>

\* m_executor->initialize(), called on the running thread.
NodeWorker_initNode(t) ==
    /\ Alive
    /\ Running(t, "node", "initNode")
    /\ stack' = [stack EXCEPT ![t] = Tail(@)]
    /\ PostToExec("appInitMain")
    /\ cnt' = Bump(cnt, "initStart")
    /\ Record(t)
    /\ UNCHANGED <<closeLog, mainPc, retval, exitReq, exitCode, execRet, affinity,
                   threadStarted, shown, m_allow_close, configFailed, baseRes,
                   gotSuccess, gotFail, flagAccess>>

\* initializeResult reports success whatever the flag.
InitResultSignalAlwaysSuccess(success) == "initSuccess"

InitResultSignal(success) == IF success THEN "initSuccess" ELSE "initFail"

NodeWorker_initializeResult(t) ==
    /\ Alive
    /\ Running(t, "node", "initializeResult")
    /\ LET success == Top(t).arg
           sg == InitResultSignal(success)
       IN  /\ gotSuccess' = (gotSuccess \/ success)
           /\ gotFail' = (gotFail \/ ~success)
           /\ EmitAndReturn(t, "node", sg, "none")
           /\ cnt' = Bump(Bump(cnt, "resHandled"),
                          IF sg = "initSuccess" THEN "succEmit" ELSE "failEmit")
    /\ Record(t)
    /\ UNCHANGED <<closeLog, mainPc, retval, exitReq, exitCode, execRet, affinity,
                   threadStarted, shown, m_allow_close, configFailed, baseRes,
                   flagAccess>>

NodeWorker_onBaseInitFail(t) ==
    /\ Alive
    /\ Running(t, "node", "onBaseInitFail")
    /\ ExitLoop(1)
    /\ Return(t)
    /\ cnt' = Bump(cnt, "exitCalls")
    /\ Record(t)
    /\ UNCHANGED <<closeLog, mainPc, retval, execRet, affinity, threadStarted, queue,
                   shown, m_allow_close, configFailed, baseRes, gotSuccess,
                   gotFail, flagAccess>>

NodeWorker_onInitFail(t) ==
    /\ Alive
    /\ Running(t, "node", "onInitFail")
    /\ ExitLoop(1)
    /\ Return(t)
    /\ cnt' = Bump(cnt, "exitCalls")
    /\ Record(t)
    /\ UNCHANGED <<closeLog, mainPc, retval, execRet, affinity, threadStarted, queue,
                   shown, m_allow_close, configFailed, baseRes, gotSuccess,
                   gotFail, flagAccess>>

\* onShutdown drops the request.
ShutdownSignalDropped == "dropped"

ShutdownSignal == "shutdown"

NodeWorker_onShutdown(t) ==
    /\ Alive
    /\ Running(t, "node", "onShutdown")
    /\ EmitAndReturn(t, "node", ShutdownSignal, "none")
    /\ cnt' = Bump(cnt, "onShutdown")
    /\ Record(t)
    /\ UNCHANGED <<closeLog, mainPc, retval, exitReq, exitCode, execRet, affinity,
                   threadStarted, shown, m_allow_close, configFailed, baseRes,
                   gotSuccess, gotFail, flagAccess>>

\* The signal NodeWorker::shutdownResult, connected to the executor's
\* shutdownResult, re-emits it.
NodeWorker_shutdownResult(t) ==
    /\ Alive
    /\ Running(t, "node", "shutdownResult")
    /\ EmitAndReturn(t, "node", "shutdownResult", "none")
    /\ Record(t)
    /\ UNCHANGED <<closeLog, mainPc, retval, exitReq, exitCode, execRet, affinity,
                   threadStarted, shown, m_allow_close, configFailed, baseRes,
                   gotSuccess, gotFail, cnt, flagAccess>>

NodeWorker_listCommands(t) ==
    /\ Alive
    /\ Running(t, "node", "listCommands")
    /\ EmitAndReturn(t, "node", "commands", "cmds")
    /\ cnt' = Bump(cnt, "listCmd")
    /\ Record(t)
    /\ UNCHANGED <<closeLog, mainPc, retval, exitReq, exitCode, execRet, affinity,
                   threadStarted, shown, m_allow_close, configFailed, baseRes,
                   gotSuccess, gotFail, flagAccess>>

----------------------------------------------------------------------------
\* The init executor and the node behind it.

\* The node finishes full initialization and the executor signals the result.
Executor_appInitMain(t) ==
    /\ Alive
    /\ Running(t, "ctx", "appInitMain")
    /\ \E success \in BOOLEAN :
        EmitAndReturn(t, "executor", "initializeResult", success)
    /\ cnt' = Bump(cnt, "results")
    /\ Record(t)
    /\ UNCHANGED <<closeLog, mainPc, retval, exitReq, exitCode, execRet, affinity,
                   threadStarted, shown, m_allow_close, configFailed, baseRes,
                   gotSuccess, gotFail, flagAccess>>

\* InitExecutor::shutdown, a slot of the executor object.
Executor_shutdown(t) ==
    /\ Alive
    /\ Running(t, "executor", "shutdown")
    /\ stack' = [stack EXCEPT ![t] = Tail(@)]
    /\ PostToExec("appShutdown")
    /\ cnt' = Bump(cnt, "execShutdown")
    /\ Record(t)
    /\ UNCHANGED <<closeLog, mainPc, retval, exitReq, exitCode, execRet, affinity,
                   threadStarted, shown, m_allow_close, configFailed, baseRes,
                   gotSuccess, gotFail, flagAccess>>

\* The node has shut down and the executor signals shutdownResult.
Executor_appShutdown(t) ==
    /\ Alive
    /\ Running(t, "ctx", "appShutdown")
    /\ EmitAndReturn(t, "executor", "shutdownResult", "none")
    /\ cnt' = Bump(cnt, "ack")
    /\ Record(t)
    /\ UNCHANGED <<closeLog, mainPc, retval, exitReq, exitCode, execRet, affinity,
                   threadStarted, shown, m_allow_close, configFailed, baseRes,
                   gotSuccess, gotFail, flagAccess>>

----------------------------------------------------------------------------
\* BitcoinGUI

\* QMainWindow::show
Window_show(t) ==
    /\ Alive
    /\ Running(t, "window", "show")
    /\ shown' = TRUE
    /\ Return(t)
    /\ cnt' = Bump(cnt, "show")
    /\ Record(t)
    /\ UNCHANGED <<closeLog, mainPc, retval, exitReq, exitCode, execRet, affinity,
                   threadStarted, queue, m_allow_close, configFailed, baseRes,
                   gotSuccess, gotFail, flagAccess>>

\* The user clicks the button: QPushButton::clicked is connected to the
\* signal BitcoinGUI::listCommands.
User_click ==
    /\ mainPc = "exec"
    /\ shown
    /\ stack["gui"] = << >>
    /\ cnt["clicks"] < MaxClicks
    /\ Emit("gui", stack["gui"], "window", "listCommands", "none")
    /\ cnt' = Bump(cnt, "clicks")
    /\ UNCHANGED <<closeLog, mainPc, retval, exitReq, exitCode, execRet, affinity,
                   threadStarted, shown, m_allow_close, configFailed, baseRes,
                   gotSuccess, gotFail, ranOn, flagAccess>>

\* The user asks to close the window: a close event reaches closeEvent.
User_close ==
    /\ mainPc = "exec"
    /\ shown
    /\ stack["gui"] = << >>
    /\ cnt["closes"] < MaxCloses
    /\ stack' = [stack EXCEPT !["gui"] = << Frame("window", "closeEvent", "none") >>]
    /\ cnt' = Bump(cnt, "closes")
    /\ closeLog' = Append(closeLog, cnt["clicks"])
    /\ UNCHANGED <<mainPc, retval, exitReq, exitCode, execRet, affinity,
                   threadStarted, queue, shown, m_allow_close, configFailed,
                   baseRes, gotSuccess, gotFail, ranOn, flagAccess>>

\* closeEvent, first statement: Q_EMIT this->quitRequested().  The rest of
\* the handler stays on the stack, tagged with the value m_allow_close had
\* when the close event was received.
Window_closeEvent(t) ==
    /\ Alive
    /\ Running(t, "window", "closeEvent")
    /\ Emit(t, << Frame("window", "closeEventTest", m_allow_close) >>
                  \o Tail(stack[t]),
            "window", "quitRequested", "none")
    /\ Record(t)
    /\ UNCHANGED <<closeLog, mainPc, retval, exitReq, exitCode, execRet, affinity,
                   threadStarted, shown, m_allow_close, configFailed, baseRes,
                   gotSuccess, gotFail, cnt, flagAccess>>

\* closeEvent tests the flag the wrong way round.
CloseAcceptedInverted(flag) == ~flag

\* closeEvent accepts whatever the flag.
CloseAcceptedAlways(flag) == TRUE

\* if (m_allow_close) ev->accept() else ev->ignore()
CloseAccepted(flag) == flag

\* closeEvent, the test of m_allow_close.  An accepted close event hides
\* the window, and closing the last window quits the application.
Window_closeEventTest(t) ==
    /\ Alive
    /\ Running(t, "window", "closeEventTest")
    /\ flagAccess' = flagAccess \cup {t}
    /\ IF CloseAccepted(m_allow_close)
       THEN /\ shown' = FALSE
            /\ ExitLoop(0)
            /\ cnt' = Bump(Bump(cnt, "accepted"), "exitCalls")
       ELSE /\ cnt' = Bump(cnt, "ignored")
            /\ UNCHANGED <<shown, exitReq, exitCode>>
    /\ Return(t)
    /\ UNCHANGED <<closeLog, mainPc, retval, execRet, affinity, threadStarted, queue,
                   m_allow_close, configFailed, baseRes, gotSuccess, gotFail,
                   ranOn>>

\* doClose leaves the event loop with the failure code.
DoCloseExitCodeFailure == EXIT_FAILURE

\* QApplication::exit(0) in doClose
DoCloseExitCode == EXIT_SUCCESS

Window_doClose(t) ==
    /\ Alive
    /\ Running(t, "window", "doClose")
    /\ m_allow_close' = TRUE
    /\ flagAccess' = flagAccess \cup {t}
    /\ ExitLoop(DoCloseExitCode)
    /\ Return(t)
    /\ cnt' = Bump(Bump(cnt, "doClose"), "exitCalls")
    /\ Record(t)
    /\ UNCHANGED <<closeLog, mainPc, retval, execRet, affinity, threadStarted, queue,
                   shown, configFailed, baseRes, gotSuccess, gotFail>>

Window_rcvCommands(t) ==
    /\ Alive
    /\ Running(t, "window", "rcvCommands")
    /\ Return(t)
    /\ cnt' = Bump(cnt, "rcv")
    /\ Record(t)
    /\ UNCHANGED <<closeLog, mainPc, retval, exitReq, exitCode, execRet, affinity,
                   threadStarted, queue, shown, m_allow_close, configFailed,
                   baseRes, gotSuccess, gotFail, flagAccess>>

----------------------------------------------------------------------------
MainNext ==
    \/ GuiMain_ParseParameters
    \/ Ctor_InitConfig
    \/ GuiMain_CatchException
    \/ Ctor_Wire
    \/ Ctor_MoveToThread
    \/ Ctor_StartThread
    \/ Ctor_EmitInitNode
    \/ GuiMain_Exec
    \/ GuiMain_Return

SlotNext(t) ==
    \/ Dispatch(t)
    \/ NodeWorker_baseInitNode(t)
    \/ NodeWorker_initNode(t)
    \/ NodeWorker_initializeResult(t)
    \/ NodeWorker_onBaseInitFail(t)
    \/ NodeWorker_onInitFail(t)
    \/ NodeWorker_onShutdown(t)
    \/ NodeWorker_shutdownResult(t)
    \/ NodeWorker_listCommands(t)
    \/ Executor_appInitMain(t)
    \/ Executor_shutdown(t)
    \/ Executor_appShutdown(t)
    \/ Window_show(t)
    \/ Window_closeEvent(t)
    \/ Window_closeEventTest(t)
    \/ Window_doClose(t)
    \/ Window_rcvCommands(t)

UserNext == User_click \/ User_close

Next ==
    \/ MainNext
    \/ \E t \in Threads : SlotNext(t)
    \/ UserNext

Spec == Init /\ [][Next]_vars

\* Event delivery and the program's own steps are fair; the user's input
\* and the moment the loop leaves a batch are not forced.
FairSpec ==
    /\ Spec
    /\ WF_vars(MainNext)
    /\ \A t \in Threads : WF_vars(SlotNext(t))

----------------------------------------------------------------------------
\* Properties

CountIn(seq, o, s) ==
    Cardinality({i \in DOMAIN seq : seq[i].obj = o /\ seq[i].slot = s})

\* Calls of slot s of object o that are posted or in execution.
Pending(o, s) ==
    CountIn(queue["gui"], o, s) + CountIn(stack["gui"], o, s)
    + CountIn(queue["worker"], o, s) + CountIn(stack["worker"], o, s)
    + CountIn(queue["exec"], o, s) + CountIn(stack["exec"], o, s)

ShowInvoked == cnt["show"] > 0 \/ shown

\* C1: the window is shown only after the worker received a full
\* initialization result with success = true, itself after a baseInitialize()
\* that returned true; after a failed base init or a result with
\* success = false no show is run or pending.
C1_ShowOnlyOnSuccess ==
    /\ (ShowInvoked \/ Pending("window", "show") > 0)
          => (gotSuccess /\ baseRes = "ok" /\ cnt["results"] > 0)
    /\ (baseRes = "fail" \/ gotFail)
          => (~ShowInvoked /\ Pending("window", "show") = 0)

C1_Witness == shown /\ cnt["show"] > 0 /\ gotSuccess

\* C2: full initialization is started only after baseInitNode ran and
\* baseInitialize() returned true; after a false return it is never started.
C2_FullInitOnlyAfterBaseInit ==
    /\ (cnt["initStart"] > 0 \/ Pending("node", "initNode") > 0)
          => (baseRes = "ok" /\ cnt["baseInit"] > 0)
    /\ baseRes = "fail"
          => (cnt["initStart"] = 0 /\ Pending("node", "initNode") = 0
              /\ Pending("ctx", "appInitMain") = 0 /\ cnt["results"] = 0)

C2_Witness == cnt["initStart"] > 0 /\ baseRes = "ok"

\* C3: a close event is accepted only after quitRequested reached the
\* worker, the shutdown request was forwarded and acknowledged, and the
\* acknowledgement was delivered to doClose; before doClose ran every close
\* event handled so far was ignored.
C3_CloseOnlyAfterHandshake ==
    /\ cnt["accepted"] > 0
          => (cnt["onShutdown"] > 0 /\ cnt["execShutdown"] > 0
              /\ cnt["ack"] > 0 /\ cnt["doClose"] > 0
              /\ <<"node", "shutdownResult", "worker">> \in ranOn)
    /\ cnt["doClose"] = 0
          => (cnt["accepted"] = 0 /\ ~m_allow_close)
    /\ cnt["doClose"] > 0 => cnt["onShutdown"] > 0

C3_Witness == cnt["accepted"] > 0 /\ cnt["ignored"] > 0

Finished == mainPc = "returned" /\ retval = EXIT_SUCCESS /\ execRet = 0

\* C4: once the user has asked to close the shown window, eventually doClose
\* has run, the event loop has been left with code 0 and GuiMain has
\* returned 0.
C4_CloseLeadsToExit ==
    (cnt["closes"] > 0) ~> (Finished /\ cnt["doClose"] > 0)

C4_Witness == cnt["closes"] > 0 /\ Finished /\ cnt["doClose"] > 0

InitFailed == baseRes = "fail" \/ gotFail

\* C5: when node initialization fails at either phase, the value returned
\* by GuiMain is 1.
C5_InitFailureReturnsOne ==
    (mainPc = "returned" /\ InitFailed) => retval = EXIT_FAILURE

\* C6: when common::InitConfig returns an error, the value returned by
\* GuiMain is 1.
C6_ConfigFailureReturnsOne ==
    (mainPc = "returned" /\ configFailed) => retval = EXIT_FAILURE

\* C7: baseInitialize() is invoked at most once, full initialization is
\* started at most once, and after a configuration, base-init or full-init
\* failure no further initialization step is started and the window is
\* never shown.
C7_FailuresAreFatal ==
    /\ cnt["baseInit"] <= 1
    /\ cnt["initStart"] <= 1
    /\ configFailed
          => (cnt["baseInit"] = 0 /\ cnt["initStart"] = 0 /\ ~ShowInvoked)
    /\ baseRes = "fail" => (cnt["initStart"] = 0 /\ ~ShowInvoked)
    /\ gotFail => ~ShowInvoked

ClickAccounting ==
    /\ cnt["clicks"] = cnt["listCmd"] + Pending("node", "listCommands")
    /\ cnt["listCmd"] = cnt["rcv"] + Pending("window", "rcvCommands")

\* C8: every click gives exactly one run of NodeWorker::listCommands and
\* then exactly one command list for rcvCommands, none without a click; and
\* while the application keeps running the list of every click is
\* eventually delivered.
C8_ClickGivesOneCommandList ==
    /\ []ClickAccounting
    /\ (cnt["clicks"] > cnt["rcv"]) ~> (cnt["rcv"] >= cnt["clicks"] \/ exitReq)

C8_Witness == cnt["clicks"] = MaxClicks /\ cnt["rcv"] = MaxClicks

TriggeredWorkerSlots ==
    {"baseInitNode", "listCommands", "onShutdown", "initializeResult"}

WindowSlots == {"show", "rcvCommands", "doClose", "closeEvent"}

\* No object has slots in execution on two threads at once.
NoConcurrentSlots ==
    \A t1 \in Threads : \A t2 \in Threads \ {t1} :
        \A i \in DOMAIN stack[t1] : \A j \in DOMAIN stack[t2] :
            stack[t1][i].obj # stack[t2][j].obj

\* C9: the worker's slots baseInitNode, listCommands, onShutdown and
\* initializeResult run on the worker thread only, the window's slots and
\* closeEvent on the gui thread only, no object has slots running on two
\* threads at once, and m_allow_close is accessed on the gui thread only.
C9_SlotsOnOwnThread ==
    /\ \A r \in ranOn :
          /\ (r[1] = "node" /\ r[2] \in TriggeredWorkerSlots) => r[3] = "worker"
          /\ r[1] = "window" => r[3] = "gui"
    /\ NoConcurrentSlots
    /\ flagAccess \subseteq {"gui"}

C9_Witness ==
    /\ \A s \in TriggeredWorkerSlots : <<"node", s, "worker">> \in ranOn
    /\ \A s \in WindowSlots : <<"window", s, "gui">> \in ranOn
    /\ flagAccess = {"gui"}

\* C10: for each result signalled by the init executor the worker's
\* initializeResult runs exactly once and emits exactly one of initSuccess
\* and initFail.
C10_ResultHandledOnce ==
    /\ cnt["resHandled"] + Pending("node", "initializeResult") = cnt["results"]
    /\ cnt["succEmit"] + cnt["failEmit"] = cnt["resHandled"]

\* C11: the worker thread is started during controller construction, and
\* when the application has terminated the controller has stopped it.
C11_ThreadTornDown ==
    /\ cnt["execEntered"] > 0 => threadStarted
    /\ mainPc = "returned" => ~ThreadRunning

CtorPcs == {"ctor_config", "ctor_wire", "ctor_move", "ctor_start",
            "ctor_emit", "ctor_end"}

\* C12: after a command-line parse failure GuiMain returns 1 and no
\* controller, window or worker was constructed, the worker thread was not
\* started and the event loop was not entered; an exception thrown by the
\* controller's constructor gives return value 1.
C12_EarlyFailuresReturnOne ==
    /\ cnt["parseFail"] > 0
          => /\ mainPc = "returned"
             /\ retval = EXIT_FAILURE
             /\ cnt["created"] = 0
             /\ ~threadStarted
             /\ affinity["node"] = "gui"
             /\ cnt["execEntered"] = 0
             /\ execRet = -1
             /\ cnt["baseInit"] = 0
             /\ \A t \in Threads : stack[t] = << >> /\ queue[t] = << >>
    /\ cnt["thrown"] > 0
          => /\ mainPc = "returned"
             /\ retval = EXIT_FAILURE
             /\ cnt["execEntered"] = 0

C12_Witness ==
    cnt["parseFail"] > 0 /\ mainPc = "returned" /\ retval = EXIT_FAILURE

\* C13: initNode is emitted after the worker was moved to its thread and
\* the thread started, so baseInitNode is a queued event for the worker
\* thread: it runs there only, and the constructor runs no slot on the gui
\* thread.
C13_BaseInitQueuedToWorker ==
    /\ \A r \in ranOn :
          (r[1] = "node" /\ r[2] = "baseInitNode") => r[3] = "worker"
    /\ (Pending("node", "baseInitNode") > 0 \/ cnt["baseInit"] > 0)
          => (affinity["node"] = "worker" /\ threadStarted)
    /\ CountIn(stack["gui"], "node", "baseInitNode") = 0
       /\ CountIn(queue["gui"], "node", "baseInitNode") = 0
    /\ mainPc \in CtorPcs => stack["gui"] = << >>
    /\ mainPc = "ctor_end"
          => cnt["baseInit"] + CountIn(queue["worker"], "node", "baseInitNode")
                + CountIn(stack["worker"], "node", "baseInitNode") = 1

C13_Witness ==
    /\ <<"node", "baseInitNode", "worker">> \in ranOn
    /\ mainPc = "ctor_end"

\* C14: signals are delivered in order: when the worker handles a close
\* request it has run listCommands for every click made before that close
\* event, and when doClose runs for it rcvCommands has received the command
\* list of each of those clicks.
C14_OrderedDelivery ==
    /\ cnt["onShutdown"] <= Len(closeLog)
    /\ cnt["doClose"] <= cnt["onShutdown"]
    /\ \A k \in 1..cnt["onShutdown"] : cnt["listCmd"] >= closeLog[k]
    /\ \A k \in 1..cnt["doClose"] : cnt["rcv"] >= closeLog[k]

C14_Witness ==
    /\ cnt["doClose"] > 0
    /\ closeLog[1] > 0
    /\ cnt["rcv"] >= closeLog[1]

\* A close event received while m_allow_close was false is at its test.
TestingInitiatingClose(t) ==
    /\ Running(t, "window", "closeEventTest")
    /\ Top(t).arg = FALSE

\* C15: a close event received while m_allow_close is false is always
\* ignored: the flag is still false when closeEvent tests it, and the
\* handler ignores the event and leaves the window visible.
C15_InitiatingCloseIgnored ==
    /\ [](\A t \in Threads : TestingInitiatingClose(t) => ~m_allow_close)
    /\ [][\A t \in Threads :
            (TestingInitiatingClose(t) /\ stack'[t] # stack[t])
               => /\ cnt'["ignored"] = cnt["ignored"] + 1
                  /\ cnt'["accepted"] = cnt["accepted"]
                  /\ shown' = shown
                  /\ exitReq' = exitReq]_vars

C15_Witness ==
    /\ cnt["ignored"] > 0
    /\ cnt["doClose"] = 0
    /\ cnt["onShutdown"] > 0

UserOpReachedNode ==
    \/ cnt["clicks"] > 0 \/ cnt["closes"] > 0
    \/ cnt["listCmd"] > 0 \/ Pending("node", "listCommands") > 0
    \/ cnt["onShutdown"] > 0 \/ Pending("node", "onShutdown") > 0
    \/ cnt["execShutdown"] > 0 \/ Pending("executor", "shutdown") > 0
    \/ Pending("ctx", "appShutdown") > 0 \/ cnt["ack"] > 0

\* C16: listRpcCommands() and the shutdown request are never invoked, nor
\* on their way, before the worker received a full initialization result
\* with success = true and the window was shown.
C16_NoUserOpBeforeInit ==
    UserOpReachedNode => (gotSuccess /\ ~gotFail /\ cnt["show"] > 0)

C16_Witness == cnt["listCmd"] > 0 /\ cnt["execShutdown"] > 0 /\ gotSuccess

\* C17: m_allow_close is false until doClose runs, changes only in a step
\* of doClose, never goes back to false; every doClose sets it and asks the
\* application to exit with code 0; rcvCommands and closeEvent leave it
\* alone.
C17_AllowCloseMonotonic ==
    /\ [](cnt["doClose"] = 0 => ~m_allow_close)
    /\ [][/\ m_allow_close => m_allow_close'
          /\ m_allow_close' # m_allow_close
                => cnt'["doClose"] = cnt["doClose"] + 1
          /\ cnt'["doClose"] # cnt["doClose"]
                => /\ m_allow_close'
                   /\ exitReq' /\ exitCode' = 0
                   /\ cnt'["exitCalls"] = cnt["exitCalls"] + 1
          /\ (\/ cnt'["rcv"] # cnt["rcv"]
              \/ cnt'["ignored"] # cnt["ignored"]
              \/ cnt'["accepted"] # cnt["accepted"]
              \/ cnt'["closes"] # cnt["closes"])
                => m_allow_close' = m_allow_close]_vars

C17_Witness ==
    /\ m_allow_close
    /\ cnt["doClose"] > 0
    /\ cnt["accepted"] > 0
    /\ exitCode = 0

\* C18: every close event emits quitRequested and the worker forwards one
\* shutdown request to the init executor for each: close events, onShutdown
\* runs and forwarded requests balance, repeated close events before the
\* first acknowledgement included.
C18_CloseRequestsNotDeduplicated ==
    /\ cnt["closes"] = cnt["onShutdown"] + Pending("node", "onShutdown")
                       + Pending("window", "closeEvent")
    /\ cnt["onShutdown"] = cnt["execShutdown"] + Pending("executor", "shutdown")

C18_Witness ==
    /\ cnt["closes"] >= 2
    /\ cnt["onShutdown"] = cnt["closes"]
    /\ cnt["execShutdown"] = cnt["closes"]
    /\ cnt["ack"] = 0
====
